---- MODULE Spec2Model ----
(***************************************************************************)
(* Model of the block scanning engine of trust_wallet_homework:            *)
(*   - ParserServiceImpl.Start / Stop           (application, service)     *)
(*   - pollBlocks / getScanRange / processBlock / scanBlockRange           *)
(*                                              (block_scanner.go)         *)
(*   - the in-memory Cursor Store, Watch Set and Transaction Index         *)
(* Every access of a polling goroutine to a shared store or to a field of  *)
(* the service is one step, so that polling loops, Start callers, facade   *)
(* callers and the chain interleave as goroutines do.                      *)
(***************************************************************************)
EXTENDS Integers, Sequences, FiniteSets, TLC

\* ------------------------------------------------------------------ bounds
MaxTip == 2
MaxStarts == 2
MaxLoops == 2
MaxStored == 3
MaxInterval == 4

\* --------------------------------------------------------------- constants
\* domain.Address{} (value ""), the zero Address
Zero == "Z"
\* the valid address that callers subscribe
Subscribable == {"A"}
\* valid addresses that occur on the chain
Addr == {"A", "C"}
Keys == Addr \cup {Zero}
\* the pointer lastScannedBlock is nil; BlockNumber values are never negative
NotInitialized == 0 - 1
\* no context / no channel assigned to the field yet
NoRef == 0

Loops == 1..MaxLoops
Chans == 1..MaxStarts
Blocks == 1..MaxTip

Tx(h, f, t, b) == [hash |-> h, from |-> f, to |-> t, block |-> b]

\* the canonical chain the node serves: block number -> transactions
Chain(b) ==
    CASE b = 1 -> << Tx(1, "A", "A", 1), Tx(2, "C", Zero, 1) >>
      [] b = 2 -> << Tx(3, "A", Zero, 2), Tx(4, "C", "A", 2) >>
      [] OTHER -> << Tx(5, "A", "C", b) >>

VARIABLES
    tip,            \* chain tip of the node
    ctxDone,        \* contexts that are cancelled
    cursor,         \* InMemoryParserStateRepo.lastScannedBlock
    watch,          \* InMemoryAddressRepo.addresses
    txIndex,        \* InMemoryTransactionRepo.transactions
    lastKnownBlock, \* ParserServiceImpl.lastKnownBlock
    pollCtx,        \* ParserServiceImpl.pollCtx
    stopChan,       \* ParserServiceImpl.stopChan
    chanClosed,     \* channels that are closed
    panicked,       \* a goroutine panicked (close of a closed channel)
    pc,             \* position of each polling goroutine
    myChan,         \* channel the goroutine's deferred close was given
    cur,            \* currentBlockFromState of the iteration
    scanParent,     \* the context scanCtx of the iteration derives from
    i,              \* start, then the loop variable i of scanBlockRange
    end,            \* end of the iteration's range
    lastOK,         \* lastSuccessfullyProcessedBlock
    j,              \* index of the next transaction of the block in processBlock
    snap,           \* monitoredAddressesMap of the iteration
    stopPc,         \* position of the caller inside Stop
    stopWait,       \* the completion channel Stop's select waits on
    stopExpired,    \* the context passed to Stop was done when Stop was called
    \* history variables
    stopRet,        \* what the last Stop call returned
    startCalls,     \* number of Start calls made
    startTip,       \* tip returned to the first Start call (NotInitialized: the fetch failed)
    fetchedOK,      \* blocks some iteration fetched without error
    prevAbort,      \* last block completed by the loop's last iteration when it ended on a fetch error
    clean,          \* the index was empty when the iteration began and only it appended since
    got,            \* blocks the source returned (non-nil) to the iteration
    res,            \* how the loop's last iteration ended, until the next one begins
    appended,       \* every transaction handed to Store, in order
    facadeRet,      \* the last call of a facade caller and what it returned
    pollingInterval, \* ParserServiceImpl.pollingInterval, in milliseconds
    scanTimeout,    \* scanTimeout of the iteration, in milliseconds
    failed          \* history: hashes of the transactions whose append failed in the iteration

vars == << tip, ctxDone, cursor, watch, txIndex, lastKnownBlock, pollCtx, stopChan,
           chanClosed, panicked, pc, myChan, cur, scanParent, i, end,
           lastOK, j, snap, startCalls, startTip, fetchedOK, prevAbort,
           clean, got, res, appended, stopPc, stopWait, stopExpired, stopRet,
           facadeRet, pollingInterval, scanTimeout, failed >>

envVars   == << tip, ctxDone >>
svcVars   == << lastKnownBlock, pollCtx, stopChan >>
iterVars  == << cur, scanParent, i, end, lastOK, j, snap >>
histStart == << startCalls, startTip >>
stopVars  == << stopPc, stopWait, stopExpired, stopRet >>

\* what a caller holds after a call: the method, its argument, the repository
\* method the call reached, the error (and the error it wraps), and the values
Ret(op, arg, called, err, wraps, block, txs, address) ==
    [op |-> op, arg |-> arg, called |-> called, err |-> err, wraps |-> wraps,
     block |-> block, txs |-> txs, address |-> address]

\* no call made yet
NoCall == Ret("none", << >>, "none", "nil", "none", 0, << >>, << >>)

\* everything NewParserService and the adapters' constructors set, but the
\* polling interval
InitEngine ==
    /\ tip = 0
    /\ ctxDone = {}
    /\ cursor = NotInitialized
    /\ watch = {}
    /\ txIndex = [a \in Keys |-> << >>]
    /\ lastKnownBlock = 0
    /\ pollCtx = NoRef
    /\ stopChan = NoRef
    /\ chanClosed = {}
    /\ panicked = FALSE
    /\ pc = [l \in Loops |-> "idle"]
    /\ myChan = [l \in Loops |-> NoRef]
    /\ cur = [l \in Loops |-> 0]
    /\ scanParent = [l \in Loops |-> NoRef]
    /\ i = [l \in Loops |-> 0]
    /\ end = [l \in Loops |-> 0]
    /\ lastOK = [l \in Loops |-> 0]
    /\ j = [l \in Loops |-> 0]
    /\ snap = [l \in Loops |-> {}]
    /\ startCalls = 0
    /\ startTip = NotInitialized
    /\ fetchedOK = {}
    /\ prevAbort = [l \in Loops |-> NotInitialized]
    /\ clean = [l \in Loops |-> FALSE]
    /\ got = [l \in Loops |-> {}]
    /\ res = [l \in Loops |-> "none"]
    /\ appended = << >>
    /\ stopPc = "idle"
    /\ stopWait = NoRef
    /\ stopExpired = FALSE
    /\ stopRet = "none"
    /\ facadeRet = NoCall
    /\ scanTimeout = [l \in Loops |-> 0]
    /\ failed = [l \in Loops |-> {}]

\* time.Second and time.Millisecond, in milliseconds
Second == 1000
Millisecond == 1

\* DefaultAppServicePollingIntervalSeconds
DefaultAppServicePollingIntervalSeconds == 10

Init ==
    /\ InitEngine
    /\ pollingInterval = DefaultAppServicePollingIntervalSeconds * Second

\* ------------------------------------------------------------ the stores
\* GetCurrentBlock that takes a stored 0 for an empty store
GetCurrentBlock_ZeroIsAbsent(c) ==
    IF c <= 0 THEN [value |-> 0, err |-> "ErrStateNotInitialized"]
    ELSE [value |-> c, err |-> "nil"]

\* InMemoryParserStateRepo.GetCurrentBlock: the value, or ErrStateNotInitialized
GetCurrentBlock(c) ==
    IF c = NotInitialized THEN [value |-> 0, err |-> "ErrStateNotInitialized"]
    ELSE [value |-> c, err |-> "nil"]

\* Store without the check that to differs from from
Store_NoSelfCheck(idx, tx) ==
    LET idx1 == [idx EXCEPT ![tx.from] = Append(@, tx)]
    IN  IF tx.to # Zero
        THEN [idx1 EXCEPT ![tx.to] = Append(@, tx)]
        ELSE idx1

\* Store as a reader would see it between its two appends
Store_FromFirst(idx, tx) == [idx EXCEPT ![tx.from] = Append(@, tx)]

\* InMemoryTransactionRepo.Store
Store(idx, tx) ==
    LET fromAddr == tx.from
        toAddr   == tx.to
        idx1     == [idx EXCEPT ![fromAddr] = Append(@, tx)]
    IN  IF toAddr # Zero /\ fromAddr # toAddr
        THEN [idx1 EXCEPT ![toAddr] = Append(@, tx)]
        ELSE idx1

\* InMemoryTransactionRepo.FindByAddress: a copy of the sequence, never an error
FindByAddress(idx, address) == [txs |-> idx[address], err |-> "nil"]

\* an Add that replaces the map by the new entry
Add_Replace(set, address) == {address}

\* InMemoryAddressRepo.Add
Add(set, address) == set \cup {address}

\* InMemoryAddressRepo.Exists
Exists(set, address) == address \in set

\* domain.NewAddress followed by addressRepo.Add: what Subscribe returns
SubscribeResult(a) == IF a \in Addr THEN "nil" ELSE "address validation failed"

\* InMemoryAddressRepo.FindAll, turned into monitoredAddressesMap
FindAll(set) == set

\* ------------------------------------------------------ the scan iteration
\* an iteration that does not look at its context
Cancelled_Never(l) == FALSE

\* scanCtx is done because the context it derives from is cancelled
Cancelled(l) == scanParent[l] \in ctxDone

InIteration(l) == pc[l] \in {"tip", "snap", "loop", "tx"}

\* matching against the Watch Set as it is now
monitoredAddressesMap_Live(l) == watch

\* the set processBlock matches against: the iteration's own snapshot
monitoredAddressesMap(l) == snap[l]

\* processBlock looking at the sender only
StoreTx_FromOnly(tx, monitoredAddresses) == tx.from \in monitoredAddresses

\* processBlock storing whatever the block holds
StoreTx_Everything(tx, monitoredAddresses) == TRUE

\* processBlock looking at the receiver only
StoreTx_ToOnly(tx, monitoredAddresses) ==
    tx.to # Zero /\ tx.to \in monitoredAddresses

\* processBlock: does the transaction go to the Transaction Index
StoreTx(tx, monitoredAddresses) ==
    \/ tx.from \in monitoredAddresses
    \/ tx.to # Zero /\ tx.to \in monitoredAddresses

\* a range that begins at the block the cursor names
RangeStart_Same(currentParsedBlock) == currentParsedBlock

\* getScanRange: the first block of the range
RangeStart(currentParsedBlock) == currentParsedBlock + 1

\* a range that reaches one block past the tip
RangeEnd_PastTip(latestBlock) == latestBlock + 1

\* getScanRange: the last block of the range
RangeEnd(latestBlock) == latestBlock

\* an abort path that checkpoints the end of the range
AbortCheckpoint_End(l) == end[l]

\* scanBlockRange: the value checkpointed when the walk is cut short
AbortCheckpoint(l) == lastOK[l]

\* a final checkpoint that takes the loop variable as it is after the walk
FinalCheckpoint_LoopVar(l) == i[l]

\* scanBlockRange: the value checkpointed after the whole range
FinalCheckpoint(l) == lastOK[l]

\* a Start that always starts from block 0
StartBlock_Zero(fetched, latestNetBlock) == 0

\* Start: the block the engine starts from
StartBlock(fetched, latestNetBlock) == IF fetched THEN latestNetBlock ELSE 0

\* Start: does it refuse to launch a polling loop
AlreadyRunning == pollCtx # NoRef /\ pollCtx \notin ctxDone

\* a Start that never refuses
StartResult_Nil == "nil"

\* Start: what the call returns
StartResult ==
    IF AlreadyRunning THEN "service already running or not properly stopped"
    ELSE "nil"

\* a goroutine slot no polling loop occupies
Free(l) == pc[l] \in {"idle", "done"}

\* the timeout without the floor of half a second
ScanTimeout_NoFloor(interval) == interval - Second

\* scanBlockRange: the timeout of scanCtx for a polling interval
ScanTimeout(interval) ==
    LET t == interval - Second
    IN  IF t <= 0 THEN Millisecond * 500 ELSE t

\* what the goroutine's locals are between two iterations
EndIteration(l, how) ==
    /\ pc' = [pc EXCEPT ![l] = "wait"]
    /\ res' = [res EXCEPT ![l] = how]
    /\ i' = [i EXCEPT ![l] = 0]
    /\ end' = [end EXCEPT ![l] = 0]
    /\ lastOK' = [lastOK EXCEPT ![l] = 0]
    /\ j' = [j EXCEPT ![l] = 0]
    /\ snap' = [snap EXCEPT ![l] = {}]
    /\ cur' = [cur EXCEPT ![l] = 0]
    /\ scanParent' = [scanParent EXCEPT ![l] = NoRef]
    /\ got' = [got EXCEPT ![l] = {}]
    /\ clean' = [clean EXCEPT ![l] = FALSE]
    /\ scanTimeout' = [scanTimeout EXCEPT ![l] = 0]
    /\ failed' = [failed EXCEPT ![l] = {}]

\* SetCurrentBlock by loop l (or by Start, l = 0): the store takes the value;
\* a waiting loop's record of its own abort checkpoint ends when somebody
\* else writes the store
SetCurrentBlock(l, v, abortAt) ==
    /\ cursor' = v
    /\ prevAbort' = [m \in Loops |->
                        IF m = l THEN abortAt
                        ELSE IF pc[m] = "wait" THEN NotInitialized
                        ELSE prevAbort[m]]

\* --------------------------------------------------------------- the chain
NewBlock ==
    /\ ~panicked
    /\ tip < MaxTip
    /\ tip' = tip + 1
    /\ UNCHANGED << failed, pollingInterval, scanTimeout, stopVars, facadeRet, ctxDone, cursor, watch, txIndex, svcVars, chanClosed, panicked,
                    pc, myChan, iterVars, histStart, fetchedOK, prevAbort,
                    clean, got, res, appended >>

\* the caller of Start cancels the context the polling loop runs under (a
\* signal in main); no other context is referenced by the service any more
CancelCtx(c) ==
    /\ ~panicked
    /\ c = pollCtx
    /\ c \notin ctxDone
    /\ ctxDone' = ctxDone \cup {c}
    /\ UNCHANGED << failed, pollingInterval, scanTimeout, stopVars, facadeRet, tip, cursor, watch, txIndex, svcVars, chanClosed, panicked,
                    pc, myChan, iterVars, histStart, fetchedOK, prevAbort,
                    clean, got, res, appended >>

\* -------------------------------------------------------------- the facade
Subscribe(a) ==
    /\ ~panicked
    /\ SubscribeResult(a) = "nil"
    /\ watch' = Add(watch, a)
    /\ UNCHANGED << failed, pollingInterval, scanTimeout, stopVars, facadeRet, envVars, cursor, txIndex, svcVars, chanClosed, panicked,
                    pc, myChan, iterVars, histStart, fetchedOK, prevAbort,
                    clean, got, res, appended >>

\* Start(ctx): c is the context the caller passes (the one of the last
\* accepted Start again, or a new one), fetched whether the node answered the
\* tip request
Start(c, fetched) ==
    /\ ~panicked
    /\ startCalls < MaxStarts
    /\ c \in ({pollCtx} \ {NoRef}) \cup {startCalls + 1}
    /\ c \in ctxDone => ~fetched
    /\ AlreadyRunning \/ \E l \in Loops : Free(l)
    /\ LET n == startCalls + 1
           b == StartBlock(fetched, tip)
       IN  /\ lastKnownBlock' = b
           /\ SetCurrentBlock(0, b, NotInitialized)
           /\ startCalls' = n
           /\ startTip' = IF startCalls = 0
                          THEN (IF fetched THEN tip ELSE NotInitialized)
                          ELSE startTip
           /\ IF StartResult # "nil"
              THEN UNCHANGED << pollCtx, stopChan, pc >>
              ELSE /\ pollCtx' = c
                   /\ stopChan' = n
                   /\ LET l == CHOOSE m \in Loops :
                                 Free(m) /\ \A o \in Loops : Free(o) => m <= o
                      IN  pc' = [pc EXCEPT ![l] = "begin"]
    /\ UNCHANGED << failed, pollingInterval, scanTimeout, stopVars, facadeRet, envVars, watch, txIndex, chanClosed, panicked, myChan, iterVars,
                    fetchedOK, clean, got, res, appended >>

\* a Stop whose wait always ends on the caller's deadline
StopResults_OnlyDeadline == {"timeout"}

\* a Stop that reports success whatever ended its wait
StopResults_OnlyNil == {"nil"}

\* Stop: what the select on the completion channel and on the caller's
\* context can return. A closed channel gives nil; the caller's context gives
\* its error when the deadline elapses while the channel is still open, or
\* when it was done already at the call (select then picks either case)
StopResults ==
    (IF stopWait \in chanClosed THEN {"nil"} ELSE {})
        \cup (IF stopExpired \/ stopWait \notin chanClosed THEN {"timeout"} ELSE {})

\* Stop(ctx) is called: with no polling context it returns nil at once,
\* otherwise it starts to wait; expired: ctx is done already. It writes no
\* field of the service and cancels nothing
StopCall(expired) ==
    /\ ~panicked
    /\ stopPc = "idle"
    /\ IF pollCtx = NoRef
       THEN /\ stopRet' = "nil"
            /\ UNCHANGED << stopPc, stopWait, stopExpired >>
       ELSE /\ stopPc' = "waiting"
            /\ stopWait' = stopChan
            /\ stopExpired' = expired
            /\ stopRet' = "none"
    /\ UNCHANGED << failed, pollingInterval, scanTimeout, facadeRet, envVars, cursor, watch, txIndex, svcVars, chanClosed, panicked,
                    pc, myChan, iterVars, histStart, fetchedOK, prevAbort,
                    clean, got, res, appended >>

\* Stop returns r from its select
StopReturn(r) ==
    /\ ~panicked
    /\ stopPc = "waiting"
    /\ r \in StopResults
    /\ stopRet' = r
    /\ stopPc' = "idle"
    /\ stopWait' = NoRef
    /\ stopExpired' = FALSE
    /\ UNCHANGED << failed, pollingInterval, scanTimeout, facadeRet, envVars, cursor, watch, txIndex, svcVars, chanClosed, panicked,
                    pc, myChan, iterVars, histStart, fetchedOK, prevAbort,
                    clean, got, res, appended >>

\* ------------------------------------------------------------- pollBlocks
\* an iteration begins from block b: scanBlockRange creates scanCtx
BeginIteration(l, b) ==
    /\ pc' = [pc EXCEPT ![l] = "tip"]
    /\ cur' = [cur EXCEPT ![l] = b]
    /\ scanParent' = [scanParent EXCEPT ![l] = pollCtx]
    /\ clean' = [clean EXCEPT ![l] = \A a \in Keys : txIndex[a] = << >>]
    /\ got' = [got EXCEPT ![l] = {}]
    /\ res' = [res EXCEPT ![l] = "none"]
    /\ scanTimeout' = [scanTimeout EXCEPT ![l] = ScanTimeout(pollingInterval)]
    /\ failed' = [failed EXCEPT ![l] = {}]

\* a goroutine that waits for the first tick before it scans
LoopBegin_WaitFirst(l) ==
    /\ ~panicked
    /\ pc[l] = "begin"
    /\ myChan' = [myChan EXCEPT ![l] = stopChan]
    /\ pc' = [pc EXCEPT ![l] = "wait"]
    /\ prevAbort' = [prevAbort EXCEPT ![l] = NotInitialized]
    /\ UNCHANGED << failed, pollingInterval, scanTimeout, stopVars, facadeRet, envVars, cursor, watch, txIndex, svcVars, chanClosed, panicked,
                    iterVars, histStart, fetchedOK, clean, got, res, appended >>

\* the goroutine starts: defers close(s.stopChan) and scans from s.lastKnownBlock
LoopBegin(l) ==
    /\ ~panicked
    /\ pc[l] = "begin"
    /\ myChan' = [myChan EXCEPT ![l] = stopChan]
    /\ BeginIteration(l, lastKnownBlock)
    /\ prevAbort' = [prevAbort EXCEPT ![l] = NotInitialized]
    /\ UNCHANGED << pollingInterval, stopVars, facadeRet, envVars, cursor, watch, txIndex, svcVars, chanClosed, panicked,
                    i, end, lastOK, j, snap, histStart, fetchedOK, appended >>

\* a tick that scans from the block Start saw instead of from the cursor
Tick_FromLastKnown(l) ==
    /\ ~panicked
    /\ pc[l] = "wait"
    /\ GetCurrentBlock(cursor).err = "nil"
    /\ BeginIteration(l, lastKnownBlock)
    /\ UNCHANGED << pollingInterval, stopVars, facadeRet, envVars, cursor, watch, txIndex, svcVars, chanClosed, panicked,
                    myChan, i, end, lastOK, j, snap, histStart, fetchedOK,
                    prevAbort, appended >>

\* case <-ticker.C: read the cursor and scan from it
Tick(l) ==
    /\ ~panicked
    /\ pc[l] = "wait"
    /\ GetCurrentBlock(cursor).err = "nil"
    /\ BeginIteration(l, GetCurrentBlock(cursor).value)
    /\ UNCHANGED << pollingInterval, stopVars, facadeRet, envVars, cursor, watch, txIndex, svcVars, chanClosed, panicked,
                    myChan, i, end, lastOK, j, snap, histStart, fetchedOK,
                    prevAbort, appended >>

\* a loop that returns whenever it waits
LoopExit_Always(l) ==
    /\ ~panicked
    /\ pc[l] = "wait"
    /\ pc' = [pc EXCEPT ![l] = "done"]
    /\ myChan' = [myChan EXCEPT ![l] = NoRef]
    /\ prevAbort' = [prevAbort EXCEPT ![l] = NotInitialized]
    /\ res' = [res EXCEPT ![l] = "none"]
    /\ IF myChan[l] \in chanClosed
       THEN panicked' = TRUE /\ UNCHANGED chanClosed
       ELSE chanClosed' = chanClosed \cup {myChan[l]} /\ UNCHANGED panicked
    /\ UNCHANGED << failed, pollingInterval, scanTimeout, stopVars, facadeRet, envVars, cursor, watch, txIndex, svcVars, iterVars,
                    histStart, fetchedOK, clean, got, appended >>

\* case <-s.pollCtx.Done(): return, running the deferred close
LoopExit(l) ==
    /\ ~panicked
    /\ pc[l] = "wait"
    /\ pollCtx \in ctxDone
    /\ pc' = [pc EXCEPT ![l] = "done"]
    /\ myChan' = [myChan EXCEPT ![l] = NoRef]
    /\ prevAbort' = [prevAbort EXCEPT ![l] = NotInitialized]
    /\ res' = [res EXCEPT ![l] = "none"]
    /\ IF myChan[l] \in chanClosed
       THEN panicked' = TRUE /\ UNCHANGED chanClosed
       ELSE chanClosed' = chanClosed \cup {myChan[l]} /\ UNCHANGED panicked
    /\ UNCHANGED << failed, pollingInterval, scanTimeout, stopVars, facadeRet, envVars, cursor, watch, txIndex, svcVars, iterVars,
                    histStart, fetchedOK, clean, got, appended >>

\* ---------------------------------------------------------- scanBlockRange
\* a failed getScanRange that checkpoints before it returns
TipError_Checkpoint(l) ==
    /\ ~panicked
    /\ pc[l] = "tip"
    /\ EndIteration(l, "tiperr")
    /\ SetCurrentBlock(l, lastOK[l], NotInitialized)
    /\ UNCHANGED << pollingInterval, stopVars, facadeRet, envVars, watch, txIndex, svcVars, chanClosed, panicked,
                    myChan, histStart, fetchedOK, appended >>

\* getScanRange fails (transport error, deadline, cancellation): the
\* iteration returns without a write
TipError(l) ==
    /\ ~panicked
    /\ pc[l] = "tip"
    /\ EndIteration(l, "tiperr")
    /\ prevAbort' = [prevAbort EXCEPT ![l] = NotInitialized]
    /\ UNCHANGED << pollingInterval, stopVars, facadeRet, envVars, cursor, watch, txIndex, svcVars, chanClosed, panicked,
                    myChan, histStart, fetchedOK, appended >>

\* getScanRange: start > end, nothing to scan
NoNewBlocks(l) ==
    /\ ~panicked
    /\ pc[l] = "tip"
    /\ ~Cancelled(l)
    /\ RangeStart(cur[l]) > RangeEnd(tip)
    /\ EndIteration(l, "noop")
    /\ prevAbort' = [prevAbort EXCEPT ![l] = NotInitialized]
    /\ UNCHANGED << pollingInterval, stopVars, facadeRet, envVars, cursor, watch, txIndex, svcVars, chanClosed, panicked,
                    myChan, histStart, fetchedOK, appended >>

\* getScanRange: the range [start, end]
ScanRange(l) ==
    /\ ~panicked
    /\ pc[l] = "tip"
    /\ ~Cancelled(l)
    /\ RangeStart(cur[l]) <= RangeEnd(tip)
    /\ i' = [i EXCEPT ![l] = RangeStart(cur[l])]
    /\ end' = [end EXCEPT ![l] = RangeEnd(tip)]
    /\ pc' = [pc EXCEPT ![l] = "snap"]
    /\ UNCHANGED << failed, pollingInterval, scanTimeout, stopVars, facadeRet, envVars, cursor, watch, txIndex, svcVars, chanClosed, panicked,
                    myChan, cur, scanParent, lastOK, j, snap,
                    histStart, fetchedOK, prevAbort, clean, got, res, appended >>

\* addressRepo.FindAll, once per iteration; lastSuccessfullyProcessedBlock
\* starts at currentBlockFromState
Snapshot(l) ==
    /\ ~panicked
    /\ pc[l] = "snap"
    /\ snap' = [snap EXCEPT ![l] = FindAll(watch)]
    /\ lastOK' = [lastOK EXCEPT ![l] = cur[l]]
    /\ cur' = [cur EXCEPT ![l] = 0]
    /\ pc' = [pc EXCEPT ![l] = "loop"]
    /\ prevAbort' = [prevAbort EXCEPT ![l] = NotInitialized]
    /\ UNCHANGED << failed, pollingInterval, scanTimeout, stopVars, facadeRet, envVars, cursor, watch, txIndex, svcVars, chanClosed, panicked,
                    myChan, scanParent, i, end, j,
                    histStart, fetchedOK, clean, got, res, appended >>

\* a walk that ends without its final checkpoint
ScanComplete_NoCheckpoint(l) ==
    /\ ~panicked
    /\ pc[l] = "loop"
    /\ i[l] > end[l]
    /\ EndIteration(l, "full")
    /\ UNCHANGED << pollingInterval, stopVars, facadeRet, envVars, cursor, prevAbort, watch, txIndex, svcVars, chanClosed, panicked,
                    myChan, histStart, fetchedOK, appended >>

\* the range is walked: the final checkpoint
ScanComplete(l) ==
    /\ ~panicked
    /\ pc[l] = "loop"
    /\ i[l] > end[l]
    /\ SetCurrentBlock(l, FinalCheckpoint(l), NotInitialized)
    /\ EndIteration(l, "full")
    /\ UNCHANGED << pollingInterval, stopVars, facadeRet, envVars, watch, txIndex, svcVars, chanClosed, panicked,
                    myChan, histStart, fetchedOK, appended >>

\* case <-scanCtx.Done() at the head of the walk (the iteration's deadline
\* or a cancellation): checkpoint and return
ScanInterrupted(l) ==
    /\ ~panicked
    /\ pc[l] = "loop"
    /\ i[l] <= end[l]
    /\ SetCurrentBlock(l, AbortCheckpoint(l), NotInitialized)
    /\ EndIteration(l, "interrupted")
    /\ UNCHANGED << pollingInterval, stopVars, facadeRet, envVars, watch, txIndex, svcVars, chanClosed, panicked,
                    myChan, histStart, fetchedOK, appended >>

\* processBlock: the fetch of block i fails; checkpoint and return
FetchError(l) ==
    /\ ~panicked
    /\ pc[l] = "loop"
    /\ i[l] <= end[l]
    /\ SetCurrentBlock(l, AbortCheckpoint(l), i[l] - 1)
    /\ EndIteration(l, "fetcherr")
    /\ UNCHANGED << pollingInterval, stopVars, facadeRet, envVars, watch, txIndex, svcVars, chanClosed, panicked,
                    myChan, histStart, fetchedOK, appended >>

\* a nil block that is stepped over without counting as processed
FetchNil_NotCounted(l) ==
    /\ ~panicked
    /\ pc[l] = "loop"
    /\ i[l] <= end[l]
    /\ ~Cancelled(l)
    /\ i' = [i EXCEPT ![l] = i[l] + 1]
    /\ fetchedOK' = fetchedOK \cup {i[l]}
    /\ UNCHANGED << failed, pollingInterval, scanTimeout, stopVars, facadeRet, envVars, cursor, watch, txIndex, svcVars, chanClosed, panicked,
                    pc, myChan, cur, scanParent, end, lastOK, j, snap,
                    histStart, prevAbort, clean, got, res, appended >>

\* processBlock: the source has no block i; the block counts as processed
FetchNil(l) ==
    /\ ~panicked
    /\ pc[l] = "loop"
    /\ i[l] <= end[l]
    /\ ~Cancelled(l)
    /\ lastOK' = [lastOK EXCEPT ![l] = i[l]]
    /\ i' = [i EXCEPT ![l] = i[l] + 1]
    /\ fetchedOK' = fetchedOK \cup {i[l]}
    /\ UNCHANGED << failed, pollingInterval, scanTimeout, stopVars, facadeRet, envVars, cursor, watch, txIndex, svcVars, chanClosed, panicked,
                    pc, myChan, cur, scanParent, end, j, snap,
                    histStart, prevAbort, clean, got, res, appended >>

\* processBlock: block i arrives
FetchBlock(l) ==
    /\ ~panicked
    /\ pc[l] = "loop"
    /\ i[l] <= end[l]
    /\ ~Cancelled(l)
    /\ pc' = [pc EXCEPT ![l] = "tx"]
    /\ j' = [j EXCEPT ![l] = 1]
    /\ fetchedOK' = fetchedOK \cup {i[l]}
    /\ got' = [got EXCEPT ![l] = got[l] \cup {i[l]}]
    /\ UNCHANGED << failed, pollingInterval, scanTimeout, stopVars, facadeRet, envVars, cursor, watch, txIndex, svcVars, chanClosed, panicked,
                    myChan, cur, scanParent, i, end, lastOK, snap,
                    histStart, prevAbort, clean, res, appended >>

\* processBlock: ctx.Done() inside the transaction loop; checkpoint and return
TxInterrupted(l) ==
    /\ ~panicked
    /\ pc[l] = "tx"
    /\ j[l] <= Len(Chain(i[l]))
    /\ SetCurrentBlock(l, AbortCheckpoint(l), NotInitialized)
    /\ EndIteration(l, "interrupted")
    /\ UNCHANGED << pollingInterval, stopVars, facadeRet, envVars, watch, txIndex, svcVars, chanClosed, panicked,
                    myChan, histStart, fetchedOK, appended >>

\* processBlock: a transaction no monitored address takes part in
SkipTx(l) ==
    /\ ~panicked
    /\ pc[l] = "tx"
    /\ j[l] <= Len(Chain(i[l]))
    /\ ~Cancelled(l)
    /\ ~StoreTx(Chain(i[l])[j[l]], monitoredAddressesMap(l))
    /\ j' = [j EXCEPT ![l] = j[l] + 1]
    /\ UNCHANGED << failed, pollingInterval, scanTimeout, stopVars, facadeRet, envVars, cursor, watch, txIndex, svcVars, chanClosed, panicked,
                    pc, myChan, cur, scanParent, i, end, lastOK, snap,
                    histStart, fetchedOK, prevAbort, clean, got, res, appended >>

\* a relevant transaction that is stepped over without an append
StoreRelevantTx_Lost(l) ==
    /\ ~panicked
    /\ pc[l] = "tx"
    /\ j[l] <= Len(Chain(i[l]))
    /\ ~Cancelled(l)
    /\ StoreTx(Chain(i[l])[j[l]], monitoredAddressesMap(l))
    /\ j' = [j EXCEPT ![l] = j[l] + 1]
    /\ UNCHANGED << failed, pollingInterval, scanTimeout, stopVars, facadeRet, envVars, cursor, watch, svcVars, chanClosed, panicked,
                    pc, myChan, cur, scanParent, i, end, lastOK, snap, txIndex, appended, clean,
                    histStart, fetchedOK, prevAbort, got, res >>

\* processBlock: a relevant transaction goes to txRepo.Store
StoreRelevantTx(l) ==
    /\ ~panicked
    /\ pc[l] = "tx"
    /\ j[l] <= Len(Chain(i[l]))
    /\ ~Cancelled(l)
    /\ StoreTx(Chain(i[l])[j[l]], monitoredAddressesMap(l))
    /\ Len(appended) < MaxStored
    /\ txIndex' = Store(txIndex, Chain(i[l])[j[l]])
    /\ appended' = Append(appended, Chain(i[l])[j[l]])
    /\ clean' = [m \in Loops |-> IF m = l THEN clean[m] ELSE FALSE]
    /\ j' = [j EXCEPT ![l] = j[l] + 1]
    /\ UNCHANGED << failed, pollingInterval, scanTimeout, stopVars, facadeRet, envVars, cursor, watch, svcVars, chanClosed, panicked,
                    pc, myChan, cur, scanParent, i, end, lastOK, snap,
                    histStart, fetchedOK, prevAbort, got, res >>

\* a failed append that gives up the rest of the block
StoreFailed_RestDropped(l) ==
    /\ ~panicked
    /\ pc[l] = "tx"
    /\ j[l] <= Len(Chain(i[l]))
    /\ ~Cancelled(l)
    /\ StoreTx(Chain(i[l])[j[l]], monitoredAddressesMap(l))
    /\ j' = [j EXCEPT ![l] = Len(Chain(i[l])) + 1]
    /\ clean' = [clean EXCEPT ![l] = FALSE]
    /\ failed' = [failed EXCEPT ![l] = failed[l] \cup {Chain(i[l])[j[l]].hash}]
    /\ UNCHANGED << pollingInterval, scanTimeout, stopVars, facadeRet, envVars, cursor, watch, txIndex, svcVars, chanClosed, panicked,
                    pc, myChan, cur, scanParent, i, end, lastOK, snap,
                    histStart, fetchedOK, prevAbort, got, res, appended >>

\* processBlock: txRepo.Store returns an error that is neither Canceled nor
\* DeadlineExceeded: it is logged and the loop goes on with the next transaction
StoreFailed(l) ==
    /\ ~panicked
    /\ pc[l] = "tx"
    /\ j[l] <= Len(Chain(i[l]))
    /\ ~Cancelled(l)
    /\ StoreTx(Chain(i[l])[j[l]], monitoredAddressesMap(l))
    /\ j' = [j EXCEPT ![l] = j[l] + 1]
    /\ clean' = [clean EXCEPT ![l] = FALSE]
    /\ failed' = [failed EXCEPT ![l] = failed[l] \cup {Chain(i[l])[j[l]].hash}]
    /\ UNCHANGED << pollingInterval, scanTimeout, stopVars, facadeRet, envVars, cursor, watch, txIndex, svcVars, chanClosed, panicked,
                    pc, myChan, cur, scanParent, i, end, lastOK, snap,
                    histStart, fetchedOK, prevAbort, got, res, appended >>

\* processBlock: txRepo.Store returns Canceled or DeadlineExceeded: processBlock
\* returns the error and scanBlockRange checkpoints and returns
StoreCancelled(l) ==
    /\ ~panicked
    /\ pc[l] = "tx"
    /\ j[l] <= Len(Chain(i[l]))
    /\ StoreTx(Chain(i[l])[j[l]], monitoredAddressesMap(l))
    /\ SetCurrentBlock(l, AbortCheckpoint(l), NotInitialized)
    /\ EndIteration(l, "storecancel")
    /\ UNCHANGED << pollingInterval, stopVars, facadeRet, envVars, watch, txIndex, svcVars, chanClosed, panicked,
                    myChan, histStart, fetchedOK, appended >>

\* processBlock returns nil: block i is processed
BlockDone(l) ==
    /\ ~panicked
    /\ pc[l] = "tx"
    /\ j[l] > Len(Chain(i[l]))
    /\ lastOK' = [lastOK EXCEPT ![l] = i[l]]
    /\ i' = [i EXCEPT ![l] = i[l] + 1]
    /\ j' = [j EXCEPT ![l] = 0]
    /\ pc' = [pc EXCEPT ![l] = "loop"]
    /\ UNCHANGED << failed, pollingInterval, scanTimeout, stopVars, facadeRet, envVars, cursor, watch, txIndex, svcVars, chanClosed, panicked,
                    myChan, cur, scanParent, end, snap,
                    histStart, fetchedOK, prevAbort, clean, got, res, appended >>

\* a checkpoint write whose failure makes the goroutine return
CheckpointWriteFailed_LoopReturns(l) ==
    /\ ~panicked
    /\ pc[l] = "loop"
    /\ pc' = [pc EXCEPT ![l] = "done"]
    /\ res' = [res EXCEPT ![l] = "writefailed"]
    /\ prevAbort' = [prevAbort EXCEPT ![l] = lastOK[l]]
    /\ UNCHANGED << failed, pollingInterval, scanTimeout, stopVars, facadeRet, envVars, cursor, watch, txIndex, svcVars, chanClosed,
                    panicked, myChan, iterVars, clean, got, histStart, fetchedOK, appended >>

\* scanBlockRange writes its checkpoint (the walk is over, or block i could
\* not be processed) and stateRepo.SetCurrentBlock returns an error: it is
\* logged and the iteration ends; prevAbort keeps the value that was not written
CheckpointWriteFailed(l) ==
    /\ ~panicked
    /\ pc[l] = "loop"
    /\ EndIteration(l, "writefailed")
    /\ prevAbort' = [prevAbort EXCEPT ![l] = lastOK[l]]
    /\ UNCHANGED << pollingInterval, stopVars, facadeRet, envVars, cursor, watch, txIndex, svcVars, chanClosed,
                    panicked, myChan, histStart, fetchedOK, appended >>

\* a Start call made while no earlier polling goroutine is still alive, or
\* refused as already running
StartAlone(c, fetched) ==
    /\ AlreadyRunning \/ \A l \in Loops : Free(l)
    /\ Start(c, fetched)

\* Stop writes no field of the service and no store, so the steps of a Stop
\* caller are left to NextStop
Next ==
    \/ NewBlock
    \/ \E c \in Chans : CancelCtx(c)
    \/ \E a \in Subscribable : Subscribe(a)
    \/ \E c \in Chans, fetched \in BOOLEAN : StartAlone(c, fetched)
    \/ \E l \in Loops :
         \/ LoopBegin(l)
         \/ Tick(l)
         \/ LoopExit(l)
         \/ TipError(l)
         \/ NoNewBlocks(l)
         \/ ScanRange(l)
         \/ Snapshot(l)
         \/ ScanComplete(l)
         \/ ScanInterrupted(l)
         \/ FetchError(l)
         \/ FetchNil(l)
         \/ FetchBlock(l)
         \/ TxInterrupted(l)
         \/ SkipTx(l)
         \/ StoreRelevantTx(l)
         \/ BlockDone(l)

Spec == Init /\ [][Next]_vars

\* the engine over a Transaction Index whose Store can fail (the port
\* returns an error; the in-memory adapter never does), with no other fault
NextFaulty ==
    \/ NewBlock
    \/ \E a \in Subscribable : Subscribe(a)
    \/ \E c \in Chans, fetched \in BOOLEAN : StartAlone(c, fetched)
    \/ \E l \in Loops :
         \/ LoopBegin(l)
         \/ Tick(l)
         \/ NoNewBlocks(l)
         \/ ScanRange(l)
         \/ Snapshot(l)
         \/ ScanComplete(l)
         \/ FetchBlock(l)
         \/ SkipTx(l)
         \/ StoreRelevantTx(l)
         \/ StoreFailed(l)
         \/ StoreCancelled(l)
         \/ TxInterrupted(l)
         \/ BlockDone(l)

SpecFaulty == Init /\ [][NextFaulty]_vars

\* the engine over a Cursor Store whose SetCurrentBlock can fail inside an
\* iteration (the port returns an error; the in-memory adapter never does),
\* with no other fault
NextCursorFaulty ==
    \/ NewBlock
    \/ \E a \in Subscribable : Subscribe(a)
    \/ \E c \in Chans, fetched \in BOOLEAN : StartAlone(c, fetched)
    \/ \E l \in Loops :
         \/ LoopBegin(l)
         \/ Tick(l)
         \/ NoNewBlocks(l)
         \/ ScanRange(l)
         \/ Snapshot(l)
         \/ ScanComplete(l)
         \/ CheckpointWriteFailed(l)
         \/ FetchBlock(l)
         \/ SkipTx(l)
         \/ StoreRelevantTx(l)
         \/ BlockDone(l)

SpecCursorFaulty == Init /\ [][NextCursorFaulty]_vars

\* the engine with nothing subscribed, configured with any polling interval
\* of a whole number of seconds
InitTimeout ==
    /\ InitEngine
    /\ pollingInterval \in {k * Second : k \in 1..MaxInterval}

NextTimeout ==
    \/ NewBlock
    \/ \E c \in Chans, fetched \in BOOLEAN : StartAlone(c, fetched)
    \/ \E l \in Loops :
         \/ LoopBegin(l)
         \/ Tick(l)
         \/ NoNewBlocks(l)
         \/ ScanRange(l)
         \/ Snapshot(l)
         \/ ScanComplete(l)
         \/ FetchBlock(l)
         \/ SkipTx(l)
         \/ BlockDone(l)

SpecTimeout == InitTimeout /\ [][NextTimeout]_vars

\* the lifecycle: Start, Stop and the polling loop with nothing subscribed
NextStop ==
    \/ NewBlock
    \/ \E c \in Chans : CancelCtx(c)
    \/ \E c \in Chans, fetched \in BOOLEAN : StartAlone(c, fetched)
    \/ \E expired \in BOOLEAN : StopCall(expired)
    \/ \E r \in {"nil", "timeout"} : StopReturn(r)
    \/ \E l \in Loops :
         \/ LoopBegin(l)
         \/ Tick(l)
         \/ LoopExit(l)
         \/ TipError(l)
         \/ NoNewBlocks(l)
         \/ ScanRange(l)
         \/ Snapshot(l)
         \/ ScanComplete(l)
         \/ ScanInterrupted(l)
         \/ FetchError(l)
         \/ FetchNil(l)
         \/ FetchBlock(l)
         \/ TxInterrupted(l)
         \/ SkipTx(l)
         \/ BlockDone(l)

SpecStop == Init /\ [][NextStop]_vars

\* the engine with nothing subscribed, Start called at any time: a Start
\* whose predecessor's context is cancelled launches a polling goroutine
\* while the earlier one may still be alive
NextRestart ==
    \/ NewBlock
    \/ \E c \in Chans : CancelCtx(c)
    \/ \E c \in Chans, fetched \in BOOLEAN : Start(c, fetched)
    \/ \E l \in Loops :
         \/ LoopBegin(l)
         \/ Tick(l)
         \/ LoopExit(l)
         \/ TipError(l)
         \/ NoNewBlocks(l)
         \/ ScanRange(l)
         \/ Snapshot(l)
         \/ ScanComplete(l)
         \/ ScanInterrupted(l)
         \/ FetchError(l)
         \/ FetchNil(l)
         \/ FetchBlock(l)
         \/ TxInterrupted(l)
         \/ SkipTx(l)
         \/ BlockDone(l)

SpecRestart == Init /\ [][NextRestart]_vars

\* ===================================================== domain.NewAddress
\* A string is a sequence of one-character strings.
\* the {40} of ethAddressRegex
HexLen == 40
\* characters strings.TrimSpace removes
Whitespace == {" ", "\t", "\n"}
\* [0-9a-fA-F]
HexDigits == {"0", "1", "2", "3", "4", "5", "6", "7", "8", "9",
              "a", "b", "c", "d", "e", "f", "A", "B", "C", "D", "E", "F"}

Rep(c, n) == [k \in 1..n |-> c]

RECURSIVE TrimLeft(_)
TrimLeft(s) ==
    IF Len(s) > 0 /\ s[1] \in Whitespace THEN TrimLeft(Tail(s)) ELSE s

RECURSIVE TrimRight(_)
TrimRight(s) ==
    IF Len(s) > 0 /\ s[Len(s)] \in Whitespace
    THEN TrimRight(SubSeq(s, 1, Len(s) - 1))
    ELSE s

\* strings.TrimSpace
TrimSpace(s) == TrimRight(TrimLeft(s))

ToLowerChar(c) ==
    CASE c = "A" -> "a" [] c = "B" -> "b" [] c = "C" -> "c" [] c = "D" -> "d"
      [] c = "E" -> "e" [] c = "F" -> "f" [] c = "G" -> "g" [] c = "X" -> "x"
      [] OTHER -> c

\* strings.ToLower
ToLower(s) == [k \in 1..Len(s) |-> ToLowerChar(s[k])]

\* ethAddressRegex.MatchString: ^0x[0-9a-fA-F]{40}$
MatchString(s) ==
    /\ Len(s) = HexLen + 2
    /\ s[1] = "0"
    /\ s[2] = "x"
    /\ \A k \in 3..Len(s) : s[k] \in HexDigits

\* NewAddress that validates the input as it was given and keeps it
NewAddress_Raw(addr) ==
    IF ~MatchString(addr)
    THEN [value |-> << >>, err |-> "ErrInvalidAddressFormat"]
    ELSE [value |-> addr, err |-> "nil"]

\* domain.NewAddress
NewAddress(addr) ==
    LET cleanAddr == ToLower(TrimSpace(addr))
    IN  IF ~MatchString(cleanAddr)
        THEN [value |-> << >>, err |-> "ErrInvalidAddressFormat"]
        ELSE [value |-> cleanAddr, err |-> "nil"]

\* Address.Equals
Equals(a, other) == a.value = other.value

\* inputs of NewAddress: optional whitespace, a prefix, a body of one repeated
\* character of length 39, 40 or 41, optional whitespace; and some others
Inputs ==
    { l \o p \o Rep(c, n) \o r :
        l \in {<< >>, <<" ">>, <<"\t", " ">>},
        p \in {<<"0", "x">>, <<"0", "X">>, <<"x">>, << >>},
        c \in {"a", "A", "F", "9", "g", "G"},
        n \in {HexLen - 1, HexLen, HexLen + 1},
        r \in {<< >>, <<"\n">>} }
    \cup { << >>, <<" ">>,
           <<"0", "x">> \o Rep("a", HexLen \div 2) \o <<" ">> \o Rep("a", HexLen \div 2 - 1),
           <<"0", "x">> \o Rep("a", HexLen \div 2) \o Rep("A", HexLen \div 2),
           <<"0", "x">> \o Rep("A", HexLen \div 2) \o Rep("a", HexLen \div 2),
           <<"0", "x", " ">> \o Rep("a", HexLen) }

\* a caller applies NewAddress to addr
NewAddressCall(addr) ==
    /\ facadeRet' = LET a == NewAddress(addr)
                    IN  Ret("NewAddress", addr, "none", a.err, "none", 0, << >>, a.value)
    /\ UNCHANGED << failed, pollingInterval, scanTimeout, stopVars, envVars, cursor, watch, txIndex, svcVars, chanClosed,
                    panicked, pc, myChan, iterVars, histStart, fetchedOK, prevAbort,
                    clean, got, res, appended >>

NextAddress == \E addr \in Inputs : NewAddressCall(addr)

SpecAddress == Init /\ [][NextAddress]_vars

\* ===================================== the facade and the stores, directly
\* the addresses "A" and "C" of the chain, as Address values
AddressOf(name) == <<"0", "x">> \o Rep(IF name = "A" THEN "a" ELSE "c", HexLen)

\* the key of the Watch Set and of the Transaction Index for an Address value
Known(value) == IF value = AddressOf("A") THEN "A" ELSE "C"

\* strings callers pass to Subscribe
SubscribeInputs ==
    { AddressOf("A"),
      <<" ", "0", "X">> \o Rep("A", HexLen) \o <<"\n">>,
      <<"0", "x">> \o Rep("a", HexLen - 1),
      <<"0", "x">> \o Rep("g", HexLen),
      Rep("a", HexLen),
      << >> }

\* strings callers pass to GetTransactions
QueryInputs == SubscribeInputs \cup { AddressOf("C") }

\* GetCurrentBlock that answers 0 without an error while the store is empty
ServiceGetCurrentBlock_ZeroNoError(r) ==
    IF r.err = "ErrStateNotInitialized"
    THEN [block |-> 0, err |-> "nil", wraps |-> "none"]
    ELSE IF r.err # "nil"
         THEN [block |-> 0, err |-> "failed to get current block from state", wraps |-> r.err]
         ELSE [block |-> r.value, err |-> "nil", wraps |-> "none"]

\* ParserServiceImpl.GetCurrentBlock, r being what stateRepo.GetCurrentBlock returned
ServiceGetCurrentBlock(r) ==
    IF r.err # "nil"
    THEN [block |-> 0, err |-> "failed to get current block from state", wraps |-> r.err]
    ELSE [block |-> r.value, err |-> "nil", wraps |-> "none"]

\* Subscribe that reports a failure of Add as a validation failure
ServiceSubscribe_OneError(addressString, addErr) ==
    LET address == NewAddress(addressString)
    IN  IF address.err # "nil"
        THEN [called |-> "none", err |-> "address validation failed", wraps |-> address.err,
              address |-> address.value]
        ELSE IF addErr # "nil"
             THEN [called |-> "Add", err |-> "address validation failed",
                   wraps |-> "ErrInvalidAddressFormat", address |-> address.value]
             ELSE [called |-> "Add", err |-> "nil", wraps |-> "none", address |-> address.value]

\* ParserServiceImpl.Subscribe, addErr being what addressRepo.Add returns when
\* it is called
ServiceSubscribe(addressString, addErr) ==
    LET address == NewAddress(addressString)
    IN  IF address.err # "nil"
        THEN [called |-> "none", err |-> "address validation failed", wraps |-> address.err,
              address |-> address.value]
        ELSE IF addErr # "nil"
             THEN [called |-> "Add", err |-> "failed to subscribe address in repository",
                   wraps |-> addErr, address |-> address.value]
             ELSE [called |-> "Add", err |-> "nil", wraps |-> "none", address |-> address.value]

\* ParserServiceImpl.GetTransactions up to the query of the index
ServiceGetTransactions(addressString) ==
    LET address == NewAddress(addressString)
    IN  IF address.err # "nil"
        THEN [called |-> "none", err |-> "address validation failed", wraps |-> address.err,
              address |-> address.value]
        ELSE [called |-> "FindByAddress", err |-> "nil", wraps |-> "none",
              address |-> address.value]

\* mapDomainToAPITransaction
mapDomainToAPITransaction(domainTx) ==
    [Hash |-> domainTx.hash, From |-> domainTx.from, To |-> domainTx.to,
     BlockNumber |-> domainTx.block]

\* a caller calls GetCurrentBlock of the service; readFails: the state
\* repository behind the port fails the read
GetCurrentBlockCall(readFails) ==
    /\ facadeRet' =
         LET r == IF readFails THEN [value |-> 0, err |-> "repo error"]
                  ELSE GetCurrentBlock(cursor)
             g == ServiceGetCurrentBlock(r)
         IN  Ret("GetCurrentBlock", << >>, "GetCurrentBlock", g.err, g.wraps, g.block,
                 << >>, << >>)
    /\ UNCHANGED << failed, pollingInterval, scanTimeout, stopVars, envVars, cursor, watch, txIndex, svcVars, chanClosed,
                    panicked, pc, myChan, iterVars, histStart, fetchedOK, prevAbort,
                    clean, got, res, appended >>

\* a caller calls Subscribe of the service; addFails: the address repository
\* behind the port fails the Add
SubscribeCall(addressString, addFails) ==
    LET g == ServiceSubscribe(addressString, IF addFails THEN "repo error" ELSE "nil")
    IN  /\ facadeRet' = Ret("Subscribe", addressString, g.called, g.err, g.wraps, 0,
                            << >>, g.address)
        /\ IF g.called = "Add" /\ ~addFails
           THEN watch' = Add(watch, Known(g.address))
           ELSE UNCHANGED watch
        /\ UNCHANGED << failed, pollingInterval, scanTimeout, stopVars, envVars, cursor, txIndex, svcVars, chanClosed,
                        panicked, pc, myChan, iterVars, histStart, fetchedOK, prevAbort,
                        clean, got, res, appended >>

\* a caller calls GetTransactions of the service
GetTransactionsCall(addressString) ==
    LET g == ServiceGetTransactions(addressString)
        domainTxs == IF g.called = "FindByAddress"
                     THEN FindByAddress(txIndex, Known(g.address)).txs
                     ELSE << >>
        apiTxs == [k \in 1..Len(domainTxs) |-> mapDomainToAPITransaction(domainTxs[k])]
    IN  /\ facadeRet' = Ret("GetTransactions", addressString, g.called, g.err, g.wraps, 0,
                            apiTxs, g.address)
        /\ UNCHANGED << failed, pollingInterval, scanTimeout, stopVars, envVars, cursor, watch, txIndex, svcVars, chanClosed,
                        panicked, pc, myChan, iterVars, histStart, fetchedOK, prevAbort,
                        clean, got, res, appended >>

\* InMemoryParserStateRepo.GetCurrentBlock called on the store
RepoGetCurrentBlock ==
    /\ facadeRet' = LET r == GetCurrentBlock(cursor)
                    IN  Ret("RepoGetCurrentBlock", << >>, "GetCurrentBlock", r.err, "none",
                            r.value, << >>, << >>)
    /\ UNCHANGED << failed, pollingInterval, scanTimeout, stopVars, envVars, cursor, watch, txIndex, svcVars, chanClosed,
                    panicked, pc, myChan, iterVars, histStart, fetchedOK, prevAbort,
                    clean, got, res, appended >>

\* InMemoryParserStateRepo.SetCurrentBlock called on the store
RepoSetCurrentBlock(blockNumber) ==
    /\ cursor' = blockNumber
    /\ facadeRet' = Ret("RepoSetCurrentBlock", << >>, "SetCurrentBlock", "nil", "none",
                        blockNumber, << >>, << >>)
    /\ UNCHANGED << failed, pollingInterval, scanTimeout, stopVars, envVars, watch, txIndex, svcVars, chanClosed,
                    panicked, pc, myChan, iterVars, histStart, fetchedOK, prevAbort,
                    clean, got, res, appended >>

\* InMemoryTransactionRepo.Store called on the store by another goroutine
\* than the facade caller, who keeps what its last call returned
RepoStore(tx) ==
    /\ Len(appended) < MaxStored
    /\ txIndex' = Store(txIndex, tx)
    /\ appended' = Append(appended, tx)
    /\ UNCHANGED << failed, pollingInterval, scanTimeout, stopVars, facadeRet, envVars, cursor, watch, svcVars, chanClosed,
                    panicked, pc, myChan, iterVars, histStart, fetchedOK, prevAbort,
                    clean, got, res >>

\* the service and the stores right after NewParserService, used by callers
\* before any Start
NextFacade ==
    \/ \E readFails \in BOOLEAN : GetCurrentBlockCall(readFails)
    \/ \E s \in SubscribeInputs, addFails \in BOOLEAN : SubscribeCall(s, addFails)
    \/ \E s \in QueryInputs : GetTransactionsCall(s)
    \/ RepoGetCurrentBlock
    \/ \E v \in 0..MaxTip : RepoSetCurrentBlock(v)
    \/ \E tx \in {Chain(1)[1], Chain(MaxTip)[Len(Chain(MaxTip))]} : RepoStore(tx)

SpecFacade == Init /\ [][NextFacade]_vars

TypeOK ==
    /\ tip \in 0..MaxTip
    /\ cursor \in {NotInitialized} \cup (0..MaxTip)
    /\ watch \subseteq Subscribable
    /\ pollCtx \in {NoRef} \cup Chans
    /\ \A l \in Loops : pc[l] \in {"idle", "begin", "tip", "snap", "loop", "tx", "wait", "done"}

\* ================================================================ claims

\* C1: every write to the Cursor Store stores a value greater than or equal
\* to the value the store held just before the write.
C1_CursorNeverDecreases ==
    [][cursor # NotInitialized => cursor' >= cursor]_vars

\* C2: when the fetch of block k+1 fails after blocks up to k were completed,
\* the iteration returns with the persisted cursor equal to k (k < end), and
\* the next iteration of that loop, reading the cursor this abort left in the
\* store, computes start = k+1.
C2_AbortCheckpointsLastCompleted ==
    [][\A l \in Loops :
         /\ (pc[l] = "loop" /\ res'[l] = "fetcherr")
               => (cursor' = i[l] - 1 /\ cursor' < end[l])
         /\ (prevAbort[l] # NotInitialized /\ pc[l] = "tip" /\ pc'[l] = "snap")
               => i'[l] = prevAbort[l] + 1]_vars

\* an iteration aborted at block 2 after completing block 1, and the next
\* iteration of the loop has computed its range
C2_Witness ==
    \E l \in Loops :
        pc[l] = "snap" /\ prevAbort[l] = 1 /\ i[l] = 2 /\ 1 \in fetchedOK

\* the seed: the first value written to the Cursor Store
Seed == IF startTip = NotInitialized THEN 0 ELSE startTip

\* C3: when the persisted cursor equals c, every block b with seed < b <= c
\* has been fetched without error by some iteration.
C3_NoGaps ==
    cursor # NotInitialized =>
        \A b \in Blocks : (Seed < b /\ b <= cursor) => b \in fetchedOK

\* C4: at no time are two scan iterations executing concurrently.
C4_OneIterationAtATime ==
    Cardinality({l \in Loops : InIteration(l)}) <= 1

\* C5: the seed is written only when the Cursor Store reports NotInitialized:
\* a Start made when the cursor is initialized leaves the stored value unchanged.
C5_SeedOnlyWhenUninitialized ==
    [][(startCalls' = startCalls + 1 /\ cursor # NotInitialized)
          => cursor' = cursor]_vars

\* C6: the engine is started once, the cursor is uninitialized and the node
\* reports tip T to Start: T is in the Cursor Store before any block is
\* fetched, and once the first iteration has returned with no new block
\* produced the persisted cursor equals T.
C6_TipSeed ==
    (startCalls = 1 /\ startTip # NotInitialized) =>
        /\ cursor # NotInitialized
        /\ fetchedOK = {} => cursor = startTip
        /\ ((\E l \in Loops : pc[l] \in {"wait", "done"}) /\ tip = startTip)
              => cursor = startTip

\* started at tip 1, the first iteration found nothing to scan
C6_Witness ==
    /\ startCalls = 1 /\ startTip = 1 /\ tip = 1 /\ cursor = 1
    /\ \E l \in Loops : res[l] = "noop"

\* C7: an iteration that processes every block of its range [cursor+1, T]
\* returns with the persisted cursor equal to T.
C7_FullRangeCheckpointsEnd ==
    [][\A l \in Loops :
         (pc[l] = "loop" /\ res'[l] = "full") => cursor' = end[l]]_vars

\* an iteration walked blocks 1 and 2 and checkpointed 2
C7_Witness ==
    \E l \in Loops : res[l] = "full" /\ cursor = 2 /\ fetchedOK = {1, 2}

\* the transactions of the blocks in bs, from block b on, that a takes part
\* in, in block order and then in-block order
RECURSIVE InvolvingFrom(_, _, _)
InvolvingFrom(a, bs, b) ==
    IF b > MaxTip THEN << >>
    ELSE LET Involves(t) == t.from = a \/ t.to = a
         IN  (IF b \in bs THEN SelectSeq(Chain(b), Involves) ELSE << >>)
                \o InvolvingFrom(a, bs, b + 1)

\* C8: the index is empty when an iteration begins, A is in its watch
\* snapshot and nobody else appends: when the iteration returns after its
\* whole range, query(A) is exactly the transactions of the blocks the source
\* returned whose from or to is A, each once, by block and in-block order.
C8_QueryAfterOneIteration ==
    [][\A l \in Loops :
         (pc[l] = "loop" /\ res'[l] = "full" /\ clean[l] /\ "A" \in snap[l])
            => FindByAddress(txIndex', "A").txs = InvolvingFrom("A", got[l], 1)]_vars

\* one iteration over blocks 1 and 2 is about to return: A has three transactions
C8_Witness ==
    \E l \in Loops :
        /\ pc[l] = "loop" /\ i[l] > end[l] /\ clean[l] /\ "A" \in snap[l]
        /\ got[l] = {1, 2}
        /\ Len(txIndex["A"]) = 3

\* C9: querying a valid address that was never subscribed returns an empty
\* sequence and no error.
C9_UnsubscribedEmpty ==
    \A a \in Addr \ watch :
        /\ FindByAddress(txIndex, a).err = "nil"
        /\ FindByAddress(txIndex, a).txs = << >>

\* C9 as amended: a query never fails, and for an address that was never
\* subscribed it holds only transactions the address takes part in whose
\* other party is subscribed.
C9_UnsubscribedOnlyCounterparty ==
    \A a \in Addr :
        LET r == FindByAddress(txIndex, a)
        IN  /\ r.err = "nil"
            /\ a \notin watch =>
                 \A k \in 1..Len(r.txs) :
                     /\ r.txs[k].from = a \/ r.txs[k].to = a
                     /\ \/ r.txs[k].from \in watch
                        \/ r.txs[k].to # Zero /\ r.txs[k].to \in watch

\* C was never subscribed and has a transaction with the subscribed A
C9_Witness ==
    "C" \notin watch /\ txIndex["C"] # << >> /\ "A" \in watch

\* C10: after any sequence of appends, query(a) is exactly the appended
\* transactions with from = a or to = a, each once per append (a
\* self-transfer once), and nothing is recorded under the zero Address.
C10_IndexIsAppendedByParty ==
    /\ \A a \in Addr :
         LET Involves(t) == t.from = a \/ t.to = a
         IN  FindByAddress(txIndex, a).txs = SelectSeq(appended, Involves)
    /\ txIndex[Zero] = << >>

\* a self-transfer and a transaction to the zero Address were appended
C10_Witness ==
    /\ \E k \in 1..Len(appended) : appended[k].from = appended[k].to
    /\ \E k \in 1..Len(appended) : appended[k].to = Zero

\* C11: subscribe is idempotent: subscribing a valid address that is already
\* in the Watch Set returns no error and leaves the Watch Set unchanged (the
\* address is there once); subscribing an absent one adds exactly that address.
C11_SubscribeIdempotent ==
    \A a \in Addr :
        /\ SubscribeResult(a) = "nil"
        /\ Exists(watch, a) => Add(watch, a) = watch
        /\ ~Exists(watch, a) =>
              /\ Add(watch, a) = watch \cup {a}
              /\ Cardinality(FindAll(Add(watch, a))) = Cardinality(FindAll(watch)) + 1
        /\ Add(Add(watch, a), a) = Add(watch, a)
        /\ Cardinality({b \in FindAll(Add(Add(watch, a), a)) : b = a}) = 1

\* A is subscribed: subscribing it again, or subscribing C, is the case
C11_Witness == "A" \in watch /\ Exists(watch, "A") /\ ~Exists(watch, "C")

\* C12: Start on an Idle engine (no polling context yet) returns no error and
\* leaves the engine Running with exactly one polling loop; Start on a Running
\* engine returns an error and launches no polling loop.
C12_StartIdleOrRunning ==
    [][startCalls' = startCalls + 1 =>
         /\ pollCtx = NoRef =>
               /\ StartResult = "nil"
               /\ pollCtx' # NoRef /\ pollCtx' \notin ctxDone'
               /\ Cardinality({l \in Loops : pc'[l] \notin {"idle", "done"}}) = 1
         /\ (pollCtx # NoRef /\ pollCtx \notin ctxDone) =>
               /\ StartResult # "nil"
               /\ pc' = pc /\ pollCtx' = pollCtx /\ stopChan' = stopChan]_vars

\* Start was called twice and one polling loop is alive under a live context
C12_Witness ==
    /\ startCalls = 2 /\ pollCtx = 1 /\ pollCtx \notin ctxDone
    /\ Cardinality({l \in Loops : pc[l] \notin {"idle", "done"}}) = 1

\* C13: Stop on a Running engine requests the cancellation of the polling
\* loop, and when it returns no error every polling loop has exited (so that
\* no block fetch and no store write follows).
C13_StopCancelsAndWaits ==
    [][/\ (stopPc = "idle" /\ stopPc' = "waiting" /\ pollCtx \notin ctxDone)
            => pollCtx \in ctxDone'
       /\ (stopPc = "waiting" /\ stopPc' = "idle" /\ stopRet' = "nil")
            => \A l \in Loops : Free(l)]_vars

\* the engine is Stopped: its polling context is done and its loop has gone
Stopped == pollCtx # NoRef /\ pollCtx \in ctxDone /\ stopChan \in chanClosed

\* C14: a Stop call on an engine that was never started or is already Stopped
\* returns no error without blocking and changes neither the lifecycle state
\* nor the cursor, the Watch Set or the Transaction Index.
C14_StopIdleOrStoppedIsNoOp ==
    [][(stopPc = "idle" /\ stopVars' # stopVars /\ (pollCtx = NoRef \/ Stopped)) =>
          /\ pollCtx = NoRef => (stopRet' = "nil" /\ stopPc' = "idle")
          /\ pollCtx # NoRef => StopResults' = {"nil"}
          /\ UNCHANGED << cursor, watch, txIndex, svcVars, ctxDone, chanClosed, pc >>]_vars

\* C14 as amended: the same, for a Stopped engine provided the context
\* passed to Stop is not done already when Stop is called; whatever Stop
\* returns, neither its call nor its return changes the lifecycle state, the
\* cursor, the Watch Set or the Transaction Index.
C14_StopNoOpUnlessExpired ==
    [][/\ (stopPc = "idle" /\ stopVars' # stopVars /\ (pollCtx = NoRef \/ Stopped)) =>
            /\ pollCtx = NoRef => (stopRet' = "nil" /\ stopPc' = "idle")
            /\ (pollCtx # NoRef /\ ~stopExpired') => StopResults' = {"nil"}
            /\ pollCtx # NoRef => "nil" \in StopResults'
       /\ (stopPc = "waiting" /\ stopPc' = "idle" /\ Stopped /\ ~stopExpired)
            => stopRet' = "nil"
       /\ stopVars' # stopVars =>
            UNCHANGED << cursor, watch, txIndex, svcVars, ctxDone, chanClosed, pc >>]_vars

\* Stop has returned nil on an engine that is Stopped
C14_Witness ==
    stopRet = "nil" /\ stopPc = "idle" /\ Stopped /\ \A l \in Loops : Free(l)

\* C15: a Stop whose wait ends while the completion channel is still open
\* returns the deadline error and leaves the polling loop as it is; an
\* iteration that is in flight under the cancelled context then still
\* checkpoints lastSuccessfullyProcessedBlock as it returns.
C15_StopTimesOut ==
    [][/\ (stopPc = "waiting" /\ stopPc' = "idle") =>
            /\ stopWait \notin chanClosed => stopRet' = "timeout"
            /\ UNCHANGED << pc, cursor, iterVars >>
       /\ \A l \in Loops :
            (stopRet = "timeout" /\ pc[l] = "loop" /\ Cancelled(l) /\ pc'[l] # pc[l])
               => (pc'[l] = "wait" /\ cursor' = lastOK[l])]_vars

\* Stop has returned the deadline error while a cancelled iteration is still
\* in the middle of its range
C15_Witness ==
    /\ stopRet = "timeout" /\ stopPc = "idle"
    /\ \E l \in Loops : pc[l] = "loop" /\ Cancelled(l) /\ i[l] <= end[l] /\ lastOK[l] # cursor

\* C16: an iteration whose chain tip fetch fails ends without a write to the
\* Cursor Store and without an append to the Transaction Index; the next timer
\* tick reads the cursor the store holds and computes its range from it.
C16_TipFailureTouchesNothing ==
    [][\A l \in Loops :
         /\ (pc[l] = "tip" /\ res'[l] = "tiperr")
               => (cursor' = cursor /\ txIndex' = txIndex /\ appended' = appended)
         /\ (pc[l] = "wait" /\ pc'[l] = "tip") => cur'[l] = cursor
         /\ (pc[l] = "tip" /\ pc'[l] = "snap") => i'[l] = cur[l] + 1]_vars

\* the tip fetch failed with block 2 waiting to be scanned: the cursor is still 1
C16_Witness ==
    \E l \in Loops : res[l] = "tiperr" /\ pc[l] = "wait" /\ cursor = 1 /\ tip = 2

C18_SnapshotOncePerIteration ==
    [][\A l \in Loops :
         /\ snap'[l] # snap[l] =>
               \/ /\ pc[l] = "snap" /\ pc'[l] = "loop"
                  /\ i[l] = cur[l] + 1 /\ got[l] = {}
               \/ pc'[l] = "wait" /\ snap'[l] = {}
         /\ (pc[l] = "snap" /\ pc'[l] # pc[l]) => (pc'[l] = "loop" /\ snap'[l] = watch)
         /\ (pc[l] \in {"loop", "tx"} /\ pc'[l] \in {"loop", "tx"}) => snap'[l] = snap[l]
         /\ (pc[l] = "tx" /\ j'[l] = j[l] + 1) =>
               LET tx == Chain(i[l])[j[l]]
               IN  (tx.from \notin snap[l] /\ tx.to \notin snap[l])
                      => (appended' = appended /\ txIndex' = txIndex)]_vars

\* A is in the Watch Set but not in the copy of the iteration, which has
\* passed A's self-transfer of block 1 without storing it
C18_Witness ==
    \E l \in Loops :
        /\ pc[l] = "tx" /\ i[l] = 1 /\ j[l] = 2
        /\ "A" \in watch /\ "A" \notin snap[l] /\ appended = << >>

\* C19: when the source answers the fetch of block i with no block and no
\* error, nothing is appended to the Transaction Index, the walk goes on with
\* block i+1 and block i counts as processed: the value the iteration
\* checkpoints when it returns is at or past i.
C19_NilBlockAdvances ==
    [][\A l \in Loops :
         /\ (pc[l] = "loop" /\ pc'[l] = "loop" /\ i'[l] # i[l]) =>
               /\ i'[l] = i[l] + 1 /\ lastOK'[l] = i[l]
               /\ txIndex' = txIndex /\ appended' = appended /\ cursor' = cursor
         /\ (pc[l] \in {"loop", "tx"} /\ pc'[l] \in {"loop", "tx"}) =>
               lastOK'[l] >= lastOK[l]
         /\ (pc[l] \in {"loop", "tx"} /\ pc'[l] = "wait") =>
               (cursor' = lastOK[l] /\ cursor' >= i[l] - 1)]_vars

\* with A in the snapshot block 1 came back as no block: nothing is appended
\* and the walk stands at block 2 with block 1 processed
C19_Witness ==
    \E l \in Loops :
        /\ pc[l] = "loop" /\ i[l] = 2 /\ lastOK[l] = 1 /\ got[l] = {}
        /\ "A" \in snap[l] /\ appended = << >> /\ cursor = 0

\* C20: the engine appends a transaction of a fetched block if and only if
\* its from is in the iteration's watch snapshot, or its to is not the zero
\* Address and is in that snapshot; a transaction matching neither is passed
\* over, and nothing but this step appends.
C20_AppendIffRelevant ==
    [][/\ \A l \in Loops :
            (pc[l] = "tx" /\ j'[l] = j[l] + 1) =>
               LET tx == Chain(i[l])[j[l]]
                   relevant == \/ tx.from \in snap[l]
                               \/ tx.to # Zero /\ tx.to \in snap[l]
               IN  IF relevant
                   THEN appended' = Append(appended, tx) /\ txIndex' = Store(txIndex, tx)
                   ELSE appended' = appended /\ txIndex' = txIndex
       /\ appended' # appended =>
            \E l \in Loops : pc[l] = "tx" /\ j'[l] = j[l] + 1]_vars

\* with A in the snapshot, block 1: A's self-transfer is appended and the
\* transaction from C to nobody is passed over
C20_Witness ==
    \E l \in Loops :
        /\ pc[l] = "tx" /\ i[l] = 1 /\ j[l] = 3 /\ "A" \in snap[l]
        /\ appended = << Tx(1, "A", "A", 1) >>

\* C21: an append that fails with an error other than cancellation skips
\* that transaction only: the walk of the block goes on and the block counts
\* as completed. An append that fails on cancellation or deadline ends the
\* block at once: block i does not count and the cursor is checkpointed at i-1.
C21_AppendFailure ==
    [][\A l \in Loops :
         /\ (/\ pc[l] = "tx" /\ j'[l] = j[l] + 1 /\ appended' = appended
             /\ StoreTx(Chain(i[l])[j[l]], snap[l])) =>
               /\ pc'[l] = "tx" /\ i'[l] = i[l] /\ lastOK'[l] = lastOK[l]
               /\ cursor' = cursor /\ txIndex' = txIndex
         /\ (pc[l] = "tx" /\ j[l] <= Len(Chain(i[l])) /\ j'[l] # j[l]) =>
               \/ pc'[l] = "tx" /\ j'[l] = j[l] + 1
               \/ pc'[l] = "wait" /\ cursor' = i[l] - 1
         /\ (pc[l] = "tx" /\ pc'[l] = "loop") =>
               (j[l] > Len(Chain(i[l])) /\ lastOK'[l] = i[l] /\ i'[l] = i[l] + 1)
         /\ (pc[l] = "tx" /\ res'[l] = "storecancel") =>
               /\ cursor' = i[l] - 1 /\ pc'[l] = "wait"
               /\ appended' = appended /\ txIndex' = txIndex]_vars

\* with A in the snapshot block 1 was walked to its end and counts as
\* completed although the append of A's self-transfer failed
C21_Witness ==
    \E l \in Loops :
        /\ pc[l] = "loop" /\ i[l] = 2 /\ lastOK[l] = 1 /\ got[l] = {1}
        /\ "A" \in snap[l] /\ appended = << >>

\* C22: once the context of the polling loop is cancelled, an iteration that
\* is walking its range fetches no further block and returns with
\* lastSuccessfullyProcessedBlock written to the Cursor Store; the loop can
\* then leave at once, without a tick, and an iteration a pending tick still
\* starts ends at the tip fetch without a fetch or a write.
C22_ShutdownDuringWalk ==
    [][\A l \in Loops :
         /\ (pc[l] \in {"loop", "tx"} /\ scanParent[l] \in ctxDone) =>
               /\ fetchedOK' = fetchedOK /\ got'[l] \subseteq got[l]
               /\ appended' = appended
               /\ (pc[l] = "loop" /\ pc'[l] # pc[l]) => pc'[l] = "wait"
               /\ pc'[l] = "wait" => cursor' = lastOK[l]
         /\ (pc'[l] = "wait" /\ pollCtx' \in ctxDone') => (ENABLED LoopExit(l))'
         /\ (pc[l] = "tip" /\ scanParent[l] \in ctxDone /\ pc'[l] # pc[l]) =>
               (res'[l] = "tiperr" /\ cursor' = cursor)]_vars

\* the context is cancelled while the iteration stands between the fetch of
\* block 1 and the fetch of block 2
C22_Witness ==
    \E l \in Loops :
        /\ pc[l] = "loop" /\ scanParent[l] \in ctxDone
        /\ i[l] = 2 /\ end[l] = 2 /\ lastOK[l] = 1 /\ cursor = 0

LowerHex == {"0", "1", "2", "3", "4", "5", "6", "7", "8", "9", "a", "b", "c", "d", "e", "f"}

\* s, with surrounding whitespace removed and in lower case, is "0x" followed
\* by exactly HexLen hex digits
WellFormed(s) ==
    LET t == ToLower(TrimSpace(s))
    IN  /\ Len(t) = HexLen + 2
        /\ SubSeq(t, 1, 2) = <<"0", "x">>
        /\ \A k \in 3..Len(t) : t[k] \in LowerHex

\* C24: GetCurrentBlock of the facade returns exactly the value the Cursor
\* Store holds; while the store is uninitialized it returns an error, never
\* the value 0 without one; an error of the store read is returned wrapped;
\* and the call modifies no store.
C24_GetCurrentBlockFacade ==
    [][(facadeRet'.op = "GetCurrentBlock" /\ facadeRet' # facadeRet) =>
         /\ UNCHANGED << cursor, watch, txIndex >>
         /\ facadeRet'.err = "nil" => (cursor # NotInitialized /\ facadeRet'.block = cursor)
         /\ cursor = NotInitialized => facadeRet'.err # "nil"
         /\ facadeRet'.err # "nil" =>
              /\ facadeRet'.wraps \in {"ErrStateNotInitialized", "repo error"}
              /\ facadeRet'.wraps = "ErrStateNotInitialized" => cursor = NotInitialized]_vars

\* the facade was asked for the current block while the store was uninitialized
C24_Witness ==
    /\ facadeRet.op = "GetCurrentBlock"
    /\ cursor = NotInitialized
    /\ facadeRet.err # "nil"
    /\ facadeRet.wraps = "ErrStateNotInitialized"

\* C25: Subscribe and GetTransactions with a malformed address return a
\* validation error that wraps ErrInvalidAddressFormat, without calling Add
\* on the Watch Set and without querying the Transaction Index; an error of
\* Add on a valid address is returned as a different, non-validation error.
C25_MalformedAddressRejected ==
    [][(facadeRet'.op \in {"Subscribe", "GetTransactions"} /\ facadeRet' # facadeRet) =>
         /\ ~WellFormed(facadeRet'.arg) =>
              /\ facadeRet'.err = "address validation failed"
              /\ facadeRet'.wraps = "ErrInvalidAddressFormat"
              /\ facadeRet'.called = "none"
              /\ facadeRet'.txs = << >>
              /\ UNCHANGED << cursor, watch, txIndex >>
         /\ WellFormed(facadeRet'.arg) =>
              /\ facadeRet'.called = IF facadeRet'.op = "Subscribe" THEN "Add" ELSE "FindByAddress"
              /\ facadeRet'.err # "address validation failed"
              /\ facadeRet'.wraps # "ErrInvalidAddressFormat"
              /\ (facadeRet'.op = "Subscribe" /\ facadeRet'.err # "nil") =>
                   facadeRet'.err = "failed to subscribe address in repository"]_vars

\* a Subscribe with a malformed address was rejected while an address was
\* subscribed already
C25_Witness ==
    /\ facadeRet.op = "Subscribe"
    /\ ~WellFormed(facadeRet.arg)
    /\ Len(facadeRet.arg) > 0
    /\ facadeRet.err = "address validation failed"
    /\ watch # {}

\* C26: the Cursor Store reports ErrStateNotInitialized exactly while nothing
\* was set, which differs from holding 0; a set stores the value it was
\* passed, whole, and nothing else changes the store; so every get returns
\* the value of the last set, and a get right after a set returns its value.
C26_CursorStoreGetSet ==
    [][/\ (facadeRet'.op = "RepoGetCurrentBlock" /\ facadeRet' # facadeRet) =>
            /\ cursor' = cursor
            /\ (facadeRet'.err = "ErrStateNotInitialized") <=> (cursor = NotInitialized)
            /\ facadeRet'.err \in {"nil", "ErrStateNotInitialized"}
            /\ facadeRet'.err = "nil" => facadeRet'.block = cursor
            /\ facadeRet.op = "RepoSetCurrentBlock" =>
                 (facadeRet'.err = "nil" /\ facadeRet'.block = facadeRet.block)
       /\ (facadeRet'.op = "RepoSetCurrentBlock" /\ facadeRet' # facadeRet) =>
            (cursor' = facadeRet'.block /\ cursor' # NotInitialized)
       /\ cursor' # cursor => facadeRet'.op = "RepoSetCurrentBlock"]_vars

\* a get on a store that was set to 0 returned 0 and no error
C26_Witness ==
    /\ facadeRet.op = "RepoGetCurrentBlock"
    /\ cursor = 0
    /\ facadeRet.err = "nil"
    /\ facadeRet.block = 0

\* C29: NewAddress accepts its input exactly when the input, with surrounding
\* whitespace removed and in lower case, is "0x" followed by exactly 40 hex
\* digits; the Address is that normalised string; two accepted inputs that
\* differ only in case or surrounding whitespace give equal Addresses.
C29_NewAddressNormalises ==
    [][facadeRet'.op = "NewAddress" =>
         /\ (facadeRet'.err = "nil") <=> WellFormed(facadeRet'.arg)
         /\ facadeRet'.err = "nil" => facadeRet'.address = ToLower(TrimSpace(facadeRet'.arg))
         /\ facadeRet'.err # "nil" =>
              (facadeRet'.err = "ErrInvalidAddressFormat" /\ facadeRet'.address = << >>)
         /\ ( /\ facadeRet.op = "NewAddress"
              /\ WellFormed(facadeRet.arg)
              /\ ToLower(TrimSpace(facadeRet.arg)) = ToLower(TrimSpace(facadeRet'.arg)) ) =>
                 /\ facadeRet'.err = "nil"
                 /\ facadeRet.err = "nil"
                 /\ Equals([value |-> facadeRet.address], [value |-> facadeRet'.address])]_vars

\* NewAddress accepted an input that it had to trim and to lower
C29_Witness ==
    /\ facadeRet.op = "NewAddress"
    /\ facadeRet.err = "nil"
    /\ Len(facadeRet.arg) > HexLen + 2
    /\ ToLower(facadeRet.arg) # facadeRet.arg
    /\ facadeRet.address = <<"0", "x">> \o Rep("a", HexLen)

\* C27: the goroutine a successful Start launches begins its first iteration
\* at once, from the block Start seeded, without waiting for a tick; every
\* later iteration begins from the wait of the loop, by the receipt of one
\* tick, and that receipt begins one iteration only.
C27_FirstIterationThenTicks ==
    [][\A l \in Loops :
         /\ (pc[l] # "begin" /\ pc'[l] = "begin") =>
              (~AlreadyRunning /\ StartResult = "nil" /\ startCalls' = startCalls + 1)
         /\ (pc'[l] = "begin" /\ ~panicked') => (ENABLED LoopBegin(l))'
         /\ (pc[l] = "begin" /\ pc'[l] # "begin") =>
              (pc'[l] = "tip" /\ cur'[l] = lastKnownBlock)
         /\ (pc[l] # "tip" /\ pc'[l] = "tip") =>
              /\ pc[l] \in {"begin", "wait"}
              /\ pc[l] = "wait" => cur'[l] = cursor
              /\ \A o \in Loops \ {l} : pc'[o] = pc[o]
         /\ (pc[l] # "wait" /\ pc'[l] = "wait") => InIteration(l)]_vars

\* an iteration that a tick began: it starts from the cursor, which has moved
\* on from the block Start seeded
C27_Witness ==
    \E l \in Loops : pc[l] = "tip" /\ cur[l] = cursor /\ cur[l] # lastKnownBlock

\* C28: Stopped is terminal: once the engine is Stopped it stays Stopped, no
\* Start call brings it back to Running, and no polling goroutine is
\* launched or begins an iteration.
C28_StoppedIsTerminal ==
    [][Stopped =>
         /\ Stopped'
         /\ ~AlreadyRunning'
         /\ \A l \in Loops : pc'[l] \notin {"begin", "tip", "snap", "loop", "tx", "wait"}]_vars

\* C30: for every address, the sequence a query returns has non-decreasing
\* block numbers and, within one block, the transactions in their order in
\* the block (the hashes of Chain grow with the position in the block).
C30_QueryInDiscoveryOrder ==
    \A a \in Keys :
        LET q == FindByAddress(txIndex, a).txs
        IN  \A k \in 1..(Len(q) - 1) :
                \/ q[k].block < q[k + 1].block
                \/ q[k].block = q[k + 1].block /\ q[k].hash <= q[k + 1].hash

\* how many times x occurs in seq
Count(seq, x) == Cardinality({k \in 1..Len(seq) : seq[k] = x})

\* C31: a query never observes a transaction partially appended: in every
\* state, a transaction whose to is non-zero and differs from its from occurs
\* as often in the sequence of its from as in the sequence of its to; a query
\* returns the sequence of the address as it is then; and what a query
\* returned is not changed by a later append.
C31_AppendIsAtomicForQueries ==
    [][/\ \A k \in 1..Len(appended') :
            LET tx == appended'[k]
            IN  (tx.to # Zero /\ tx.to # tx.from) =>
                    /\ Count(txIndex'[tx.from], tx) = Count(txIndex'[tx.to], tx)
                    /\ Count(txIndex'[tx.from], tx) > 0
       /\ (facadeRet'.op = "GetTransactions" /\ facadeRet' # facadeRet
              /\ facadeRet'.called = "FindByAddress") =>
            /\ Len(facadeRet'.txs) = Len(txIndex[Known(facadeRet'.address)])
            /\ \A k \in 1..Len(facadeRet'.txs) :
                   facadeRet'.txs[k].Hash = txIndex[Known(facadeRet'.address)][k].hash
       /\ (facadeRet.op = "GetTransactions" /\ txIndex' # txIndex) =>
            facadeRet'.txs = facadeRet.txs]_vars

\* a caller holds the sequence a query returned for "A" and a transaction
\* that C sent to A was appended after it
C31_Witness ==
    /\ facadeRet.op = "GetTransactions"
    /\ facadeRet.called = "FindByAddress"
    /\ Known(facadeRet.address) = "A"
    /\ Len(facadeRet.txs) < Len(txIndex["A"])
    /\ \E k \in 1..Len(txIndex["A"]) : txIndex["A"][k].from = "C"
    /\ Len(txIndex["C"]) > 0

\* seq1 is a prefix of seq2
IsPrefix(seq1, seq2) == Len(seq1) <= Len(seq2) /\ SubSeq(seq2, 1, Len(seq1)) = seq1

C33_DeadlineShorterThanInterval ==
    /\ pollingInterval > 0
    /\ pollingInterval % Second = 0
    /\ \A l \in Loops :
           InIteration(l) => (scanTimeout[l] > 0 /\ scanTimeout[l] < pollingInterval)

\* an iteration runs with the polling interval of one second
C33_Witness ==
    \E l \in Loops :
        /\ InIteration(l)
        /\ pollingInterval = Second
        /\ scanTimeout[l] = 500 * Millisecond

\* C34: a Start call that returns the "already running" error changes
\* nothing: the Cursor Store, the remembered last-known block, the polling
\* context and the completion channel are the same after the call as before,
\* whether or not the tip request of the call succeeded.
C34_RefusedStartChangesNothing ==
    [][(startCalls' = startCalls + 1 /\ pollCtx # NoRef /\ pollCtx \notin ctxDone) =>
         UNCHANGED << cursor, lastKnownBlock, pollCtx, stopChan, chanClosed >>]_vars

\* C35: when an iteration completes block b, every transaction of b that
\* the source returned, that was relevant to the iteration's watch snapshot
\* and whose append did not fail is in the Transaction Index under its from
\* address; no step removes a transaction from the index, so this stays true
\* whatever the cursor is later; an iteration that aborts in the middle of
\* block b leaves the cursor below b, and the checkpoint an iteration writes
\* is never above the last block it completed.
C35_AtLeastOnce ==
    [][\A l \in Loops :
         /\ (pc[l] = "tx" /\ pc'[l] = "loop") =>
              /\ lastOK'[l] = i[l]
              /\ \A k \in 1..Len(Chain(i[l])) :
                     LET tx == Chain(i[l])[k]
                     IN  ( /\ \/ tx.from \in snap[l]
                              \/ tx.to # Zero /\ tx.to \in snap[l]
                           /\ tx.hash \notin failed[l] ) =>
                              Count(txIndex'[tx.from], tx) > 0
         /\ (pc[l] = "tx" /\ pc'[l] = "wait") => cursor' < i[l]
         /\ (pc[l] = "loop" /\ pc'[l] = "wait") => cursor' <= lastOK[l]
         /\ \A a \in Keys : IsPrefix(txIndex[a], txIndex'[a])]_vars

\* block 2 is completed with A watched: the append of its first transaction
\* failed, the second one is in the index under its from address C
C35_Witness ==
    \E l \in Loops :
        /\ pc[l] = "loop"
        /\ lastOK[l] = 2
        /\ "A" \in snap[l]
        /\ Chain(2)[1].hash \in failed[l]
        /\ Count(txIndex["C"], Chain(2)[2]) > 0

\* C36: every transaction in the Transaction Index has its from, or its
\* non-zero to, in the current Watch Set; the Watch Set only grows and never
\* holds the zero Address; while the Watch Set is empty the index is empty,
\* however many blocks are scanned.
C36_IndexWithinWatchSet ==
    [][/\ \A a \in Keys : \A k \in 1..Len(txIndex'[a]) :
            LET tx == txIndex'[a][k]
            IN  \/ tx.from \in watch'
                \/ tx.to # Zero /\ tx.to \in watch'
       /\ Zero \notin watch'
       /\ watch \subseteq watch'
       /\ watch' = {} => \A a \in Keys : txIndex'[a] = << >>]_vars

\* with nothing subscribed blocks 1 and 2 were scanned and the cursor moved
\* from the seed 0 to 2; the index is empty
C36_Witness ==
    /\ watch = {}
    /\ startTip = 0
    /\ fetchedOK = {1, 2}
    /\ cursor = 2
    /\ \A a \in Keys : txIndex[a] = << >>

\* C37: the persisted cursor is never above the largest chain tip the source
\* has returned (the chain only grows): Start writes the tip it was given or
\* 0, an iteration takes the tip it reads at its start as the end of its
\* range, fetches no block above it and checkpoints no block above it.
C37_CursorWithinTip ==
    [][/\ cursor' <= tip'
       /\ \A l \in Loops :
            /\ (pc[l] = "tip" /\ pc'[l] = "snap") => (end'[l] = tip /\ i'[l] <= end'[l])
            /\ (pc[l] = "loop" /\ pc'[l] = "tx") => i[l] <= end[l]
            /\ pc[l] \in {"loop", "tx"} => (i[l] <= end[l] + 1 /\ lastOK[l] <= end[l])
       /\ cursor' # cursor =>
            \/ startCalls' = startCalls + 1 /\ cursor' \in {0, tip}
            \/ \E l \in Loops :
                 /\ pc[l] \in {"loop", "tx"}
                 /\ pc'[l] = "wait"
                 /\ cursor' <= end[l]]_vars

\* an iteration read the tip 1 and checkpointed block 1; the chain has grown
\* to 2 since
C37_Witness ==
    \E l \in Loops :
        /\ pc[l] = "wait"
        /\ res[l] = "full"
        /\ startTip = 0
        /\ cursor = 1
        /\ tip = 2

\* ------------------------------------------------------------------ C38
\* one step of the polling goroutine l
LoopStep(l) ==
    \/ LoopBegin(l)
    \/ Tick(l)
    \/ TipError(l)
    \/ NoNewBlocks(l)
    \/ ScanRange(l)
    \/ Snapshot(l)
    \/ ScanComplete(l)
    \/ ScanInterrupted(l)
    \/ FetchError(l)
    \/ FetchNil(l)
    \/ FetchBlock(l)
    \/ TxInterrupted(l)
    \/ SkipTx(l)
    \/ BlockDone(l)

\* the engine with nothing subscribed and no shutdown: the chain grows, Start
\* is called, requests may fail and an iteration's deadline may expire
NextLive ==
    \/ NewBlock
    \/ \E c \in Chans, fetched \in BOOLEAN : StartAlone(c, fetched)
    \/ \E l \in Loops : LoopStep(l)

\* the goroutine is scheduled and its ticker keeps firing: a step of the loop
\* that stays possible is eventually taken
SpecLive == Init /\ [][NextLive]_vars /\ \A l \in Loops : WF_vars(LoopStep(l))

\* C38 as stated: once Start has been called and, from some point on, no tip
\* or block request fails (the chain of the model stops growing by itself and
\* no shutdown is requested), the cursor comes to equal the tip again and again
C38_Progress ==
    (/\ <>(pollCtx # NoRef)
     /\ <>[](\A l \in Loops : res[l] \notin {"tiperr", "fetcherr"}))
        => []<>(cursor = tip)

\* C38 amended: the same, provided that from some point on no iteration is
\* cut short by its own deadline either
C38_ProgressWithinDeadline ==
    (/\ <>(pollCtx # NoRef)
     /\ <>[](\A l \in Loops : res[l] \notin {"tiperr", "fetcherr"})
     /\ <>[](\A l \in Loops : res[l] # "interrupted"))
        => []<>(cursor = tip)

C38_Witness ==
    \E l \in Loops :
        /\ pc[l] = "wait"
        /\ res[l] = "full"
        /\ ctxDone = {}
        /\ startCalls = MaxStarts
        /\ cursor = tip
        /\ tip = MaxTip

\* ------------------------------------------------------------------ C39
\* C39: every completion channel is closed exactly once, by the polling loop
\* of the Start that created it: no channel is closed twice, no two loops hold
\* the same channel for their deferred close, and once every loop has exited
\* the channel of the last accepted Start is closed.
C39_CompletionChannelClosedOnce ==
    /\ ~panicked
    /\ \A l, m \in Loops :
          (l # m /\ myChan[l] # NoRef /\ myChan[m] # NoRef) => myChan[l] # myChan[m]
    /\ (stopChan # NoRef /\ \A l \in Loops : pc[l] \in {"idle", "done"})
          => stopChan \in chanClosed

\* ------------------------------------------------------------------ C40
\* the engine with no fault at all: every request is answered, no deadline
\* expires, nothing is cancelled and every append succeeds
NextClean ==
    \/ NewBlock
    \/ \E a \in Subscribable : Subscribe(a)
    \/ \E c \in Chans, fetched \in BOOLEAN : StartAlone(c, fetched)
    \/ \E l \in Loops :
         \/ LoopBegin(l)
         \/ Tick(l)
         \/ NoNewBlocks(l)
         \/ ScanRange(l)
         \/ Snapshot(l)
         \/ ScanComplete(l)
         \/ FetchNil(l)
         \/ FetchBlock(l)
         \/ SkipTx(l)
         \/ StoreRelevantTx(l)
         \/ BlockDone(l)

SpecClean == Init /\ [][NextClean]_vars

\* C40: with a single Start, no aborted iteration and no failed append, the
\* range an iteration computes begins right after the cursor, the blocks
\* fetched before it are exactly those from the block after Start's seed up
\* to the cursor, and no transaction of the chain occurs twice in the
\* sequence of any address.
C40_DisjointConsecutiveRanges ==
    startCalls = 1 =>
        /\ \A l \in Loops :
              pc[l] = "snap" =>
                  /\ i[l] = cursor + 1
                  /\ fetchedOK = (lastKnownBlock + 1)..cursor
        /\ \A a \in Keys, b \in Blocks :
              \A k \in 1..Len(Chain(b)) : Count(txIndex[a], Chain(b)[k]) <= 1

C40_Witness ==
    \E l \in Loops :
        /\ startCalls = 1
        /\ pc[l] = "snap"
        /\ i[l] = 2
        /\ fetchedOK = {1}
        /\ txIndex["A"] = << Chain(1)[1] >>

====
